---- MODULE Spec2Model ----
(***************************************************************************)
(* Model of the Blender sprite-to-3D conversion scripts under src/scripts. *)
(*                                                                         *)
(* The host (Blender) is a process holding a scene (bpy.data.objects) and  *)
(* a material list (bpy.data.materials).  The scripts are modules loaded   *)
(* into that process or run from the command line; their functions build   *)
(* primitives and materials in the scene and hand the scene to the glTF    *)
(* exporter.                                                               *)
(*                                                                         *)
(* Numbers.  Python floats are modelled as exact fixed-point integers:     *)
(*   depth                in hundredths        (0.4  is 40)                *)
(*   scale components     in ten-thousandths   (1.05 is 10500)             *)
(*   location components  in 1/800             (0.5  is 400)               *)
(*   alpha, emission      in tenths            (0.3  is 3)                 *)
(* The input sets below are chosen so that every quotient is exact.        *)
(***************************************************************************)
EXTENDS Integers, Sequences, FiniteSets, TLC

VARIABLES proc, exitCode, loaded, objects, materials, dirs, files, last, ncalls

vars == <<proc, exitCode, loaded, objects, materials, dirs, files, last, ncalls>>

\* Bound on the number of script runs and function calls explored.
MaxCalls == 2

----------------------------------------------------------------------------
\* Fixed-point units

\* layers = 8
Layers == 8

\* 1.0 as a scale component, 1.0 as a location component
ScaleOne == 100 * 100
LocOne == Layers * 100

\* a depth used as a scale component, as a location component
DepthAsScale(depth) == depth * (ScaleOne \div 100)
DepthAsLoc(depth) == depth * (LocOne \div 100)

\* 1.05, 0.6, 0.3, 0.5 and 1.0 as they appear in the scripts
ShadowScale == 10500
BodyScale == 6000
ShadowAlpha == 3
EmissionStrength == 5
AlphaOne == 10

\* FloatProperty(default=0.5, min=0.1, max=2.0)
DepthMin == 10
DepthMax == 200

----------------------------------------------------------------------------
\* The file system the scripts see

\* Sprite files: what os.path.exists, bpy.data.images.load and img.size give.
SpritePaths == {"missing.png", "sprite.png", "tall.png", "corrupt.png", "empty.png"}

os_path_exists_always(path) == TRUE

os_path_exists(path) == path \in {"sprite.png", "tall.png", "corrupt.png", "empty.png"}

\* bpy.data.images.load raises on a file it cannot decode
images_load_ok(path) == path \in {"sprite.png", "tall.png", "empty.png"}

img_size(path) ==
    CASE path = "sprite.png" -> <<800, 400>>
      [] path = "tall.png"   -> <<400, 800>>
      [] OTHER               -> <<0, 0>>

\* Output paths are sequences of components; "out.glb" is <<"out.glb">>
OutputPaths == { <<"out.glb">>, <<"models", "out.glb">> }

\* os.path.dirname: '' (the empty sequence) for a bare file name
dirname(path) == SubSeq(path, 1, Len(path) - 1)

Prefixes(d) == { SubSeq(d, 1, n) : n \in 1..Len(d) }

\* The directory a write to `path` lands in exists: the working directory
\* for a bare name, else a directory of the file system.
ParentExists(ds, path) == dirname(path) = <<>> \/ dirname(path) \in ds

----------------------------------------------------------------------------
\* Scene objects and materials

Vec(x, y, z) == <<x, y, z>>

\* Names are tuples: <<"Cube">>, and <<"SpriteLayer", 3>> for f"SpriteLayer_{i}"

Obj(kind, name, loc, scale, mats) ==
    [kind |-> kind, name |-> name, loc |-> loc, scale |-> scale, mats |-> mats]

\* A Principled BSDF material with use_nodes = True and nothing linked
NewMaterial(name) ==
    [name |-> name, tex |-> "none", color |-> "default", colorLinked |-> FALSE,
     alphaLinked |-> FALSE, alpha |-> AlphaOne, emissionLinked |-> FALSE,
     emission |-> 0, blend |-> "OPAQUE"]

\* Blender's startup scene: a cube with the default material, a camera, a light
StartupMaterials == << NewMaterial(<<"Material">>) >>

StartupObjects ==
    << Obj("cube", <<"Cube">>, Vec(0, 0, 0), Vec(ScaleOne, ScaleOne, ScaleOne), <<1>>),
       Obj("camera", <<"Camera">>, Vec(0, 0, 0), Vec(ScaleOne, ScaleOne, ScaleOne), <<>>),
       Obj("light", <<"Light">>, Vec(0, 0, 0), Vec(ScaleOne, ScaleOne, ScaleOne), <<>>) >>

\* The part of the host and file-system state a function works on
World(os, ms, ds, fs) == [objects |-> os, materials |-> ms, dirs |-> ds, files |-> fs]

\* bpy.ops.object.select_all(action='SELECT'); bpy.ops.object.delete(use_global=False)
\* Objects go; the materials stay in bpy.data.materials.
ClearScene(w) == [w EXCEPT !.objects = <<>>]

\* Add one primitive carrying one new material (obj.data.materials.append(mat)).
AddPrimitive(w, kind, name, loc, scale, mat) ==
    [w EXCEPT !.materials = Append(@, mat),
              !.objects = Append(@, Obj(kind, name, loc, scale,
                                        << Len(w.materials) + 1 >>))]

\* width / height
Aspect(size) == (size[1] * ScaleOne) \div size[2]

\* product of two scale components
Mul(a, b) == (a * b) \div ScaleOne

\* Texture wired to Base Color and Alpha, blend_method = 'BLEND'
TexturedMaterial(name, img) ==
    [NewMaterial(name) EXCEPT !.tex = img, !.colorLinked = TRUE,
                              !.alphaLinked = TRUE, !.blend = "BLEND"]

\* Texture wired to Base Color only, blend_method = 'BLEND'
ColorOnlyMaterial(name, img) ==
    [NewMaterial(name) EXCEPT !.tex = img, !.colorLinked = TRUE, !.blend = "BLEND"]

----------------------------------------------------------------------------
\* The glTF exporter, bpy.ops.export_scene.gltf, is the host's.  What it does
\* with one call is an input: "ok" (the file is written), "TypeError" (a
\* keyword it does not know) or "RuntimeError" (any other failure).
ExportOutcomes == {"ok", "TypeError", "RuntimeError"}

\* What the host does with the first and with a second call of the exporter
\* (the second entry is used only when there is a second call)
HostExport ==
    { <<"ok", "ok">>, <<"TypeError", "ok">>, <<"TypeError", "TypeError">>,
      <<"TypeError", "RuntimeError">>, <<"RuntimeError", "ok">> }

\* A conversion in progress: the world, the exporter calls made so far, the
\* number of objects in the scene when building began, and the result
\* ("running", a return value, or the name of the exception raised).
Frame(w) == [w |-> w, exports |-> <<>>, base |-> Len(w.objects), result |-> "running"]

Return(c, value) == [c EXCEPT !.result = value]

Raise(c, exc) == [c EXCEPT !.result = exc]

\* One call of the exporter on the scene as it is
ExportCall(c, path, flags, outcome) ==
    [c EXCEPT !.exports = Append(@, [scene |-> c.w.objects, path |-> path,
                                     flags |-> flags, outcome |-> outcome,
                                     parent |-> ParentExists(c.w.dirs, path)]),
              !.w.files = IF outcome = "ok" THEN @ \cup {path} ELSE @]

\* A variant that tries again after any failure
ExportGltfRetryAll(c, path, host) ==
    LET first == ExportCall(c, path, "colors", host[1])
    IN  IF host[1] = "ok" THEN first
        ELSE LET second == ExportCall(first, path, "basic", host[2])
             IN  IF host[2] = "ok" THEN second ELSE Raise(second, host[2])

\* try: gltf(**export_params, export_colors=True)
\* except TypeError: gltf(**export_params)
ExportGltf(c, path, host) ==
    LET first == ExportCall(c, path, "colors", host[1])
    IN  IF host[1] = "ok" THEN first
        ELSE IF host[1] = "TypeError"
        THEN LET second == ExportCall(first, path, "basic", host[2])
             IN  IF host[2] = "ok" THEN second ELSE Raise(second, host[2])
        ELSE Raise(first, host[1])

----------------------------------------------------------------------------
\* blender-sprite-to-3d.py

\* A variant that spreads the layers over the whole of [-depth/2, depth/2]
VoxelYPosInclusive(i, depth) ==
    (((i * LocOne) \div (Layers - 1) - LocOne \div 2) * depth) \div 100

\* y_pos = (i / layers - 0.5) * depth
VoxelYPos(i, depth) ==
    (((i * LocOne) \div Layers - LocOne \div 2) * depth) \div 100

\* The cube of the extrude method and its material
ExtrudeBuild(w, img, aspect, depth, name) ==
    AddPrimitive(w, "cube", name, Vec(0, 0, 0),
                 Vec(aspect, ScaleOne, DepthAsScale(depth)),
                 TexturedMaterial(<<"SpriteMaterial">>, img))

RECURSIVE VoxelLayers(_, _, _, _, _, _)
\* for i in range(layers): one plane and one material per layer, from layer i on
VoxelLayers(w, img, aspect, depth, alphaLinked, i) ==
    IF i >= Layers THEN w
    ELSE VoxelLayers(
            AddPrimitive(w, "plane", <<"SpriteLayer", i>>,
                         Vec(0, VoxelYPos(i, depth), 0),
                         Vec(aspect, ScaleOne, ScaleOne),
                         IF alphaLinked
                         THEN TexturedMaterial(<<"SpriteMaterial", i>>, img)
                         ELSE ColorOnlyMaterial(<<"SpriteMaterial", i>>, img)),
            img, aspect, depth, alphaLinked, i + 1)

\* create_3d_from_sprite(image_path, output_path, depth, method)
create_3d_from_sprite(w, image_path, output_path, depth, method, host) ==
    LET c == Frame(w)
    IN  IF ~os_path_exists(image_path) THEN Return(c, "False")
        ELSE IF ~images_load_ok(image_path) THEN Return(c, "False")
        ELSE IF img_size(image_path)[2] = 0 THEN Raise(c, "ZeroDivisionError")
        ELSE LET aspect == Aspect(img_size(image_path))
                 built ==
                    IF method = "extrude"
                    THEN ExtrudeBuild(w, image_path, aspect, depth, <<"Cube">>)
                    ELSE IF method = "voxel"
                    THEN VoxelLayers(w, image_path, aspect, depth, TRUE, 0)
                    ELSE w
                 done == ExportGltf([c EXCEPT !.w = built], output_path, host)
             IN  IF done.result = "running" THEN Return(done, "True") ELSE done

----------------------------------------------------------------------------
\* blender-character-to-3d.py

\* The plane of the billboard method, also the front plane of billboard-depth
BillboardBuild(w, img, aspect) ==
    AddPrimitive(w, "plane", <<"CharacterBillboard">>, Vec(0, 0, 0),
                 Vec(aspect, ScaleOne, ScaleOne),
                 TexturedMaterial(<<"CharacterMaterial">>, img))

\* Black, alpha 0.3, nothing linked, blend_method = 'BLEND'
ShadowMaterial ==
    [NewMaterial(<<"CharacterShadowMaterial">>) EXCEPT
        !.color = "black", !.alpha = ShadowAlpha, !.blend = "BLEND"]

\* Front plane, then the shadow plane behind it
BillboardDepthBuild(w, img, aspect, depth) ==
    AddPrimitive(BillboardBuild(w, img, aspect),
                 "plane", <<"CharacterShadow">>, Vec(0, 0 - DepthAsLoc(depth), 0),
                 Vec(Mul(aspect, ShadowScale), ShadowScale, ScaleOne),
                 ShadowMaterial)

\* Texture on Base Color, Emission Color and Alpha, emission strength 0.5
BodyMaterial(img) ==
    [TexturedMaterial(<<"CharacterMaterial">>, img) EXCEPT
        !.emissionLinked = TRUE, !.emission = EmissionStrength]

\* The body sphere, then the sprite plane in front of it
CapsuleBuild(w, img, aspect) ==
    AddPrimitive(
        AddPrimitive(w, "sphere", <<"CharacterBody">>, Vec(0, 0, LocOne \div 2),
                     Vec(Mul(aspect, BodyScale), BodyScale, ScaleOne),
                     BodyMaterial(img)),
        "plane", <<"CharacterSprite">>, Vec(0, LocOne \div 10, LocOne \div 2),
        Vec(aspect, ScaleOne, ScaleOne),
        TexturedMaterial(<<"CharacterSpriteMaterial">>, img))

\* create_billboard_character(image_path, output_path, method, depth);
\* load_sprite_image returns None for a missing file and lets a failed load
\* raise.
create_billboard_character(w, image_path, output_path, method, depth, host) ==
    LET c == Frame(w)
    IN  IF ~os_path_exists(image_path) THEN Return(c, "False")
        ELSE IF ~images_load_ok(image_path) THEN Raise(c, "RuntimeError")
        ELSE IF img_size(image_path)[2] = 0 THEN Raise(c, "ZeroDivisionError")
        ELSE LET aspect == Aspect(img_size(image_path))
                 built ==
                    IF method = "billboard"
                    THEN BillboardBuild(w, image_path, aspect)
                    ELSE IF method = "billboard-depth"
                    THEN BillboardDepthBuild(w, image_path, aspect, depth)
                    ELSE IF method = "capsule"
                    THEN CapsuleBuild(w, image_path, aspect)
                    ELSE w
                 done == ExportGltf([c EXCEPT !.w = built], output_path, host)
             IN  IF done.result = "running" THEN Return(done, "True") ELSE done

----------------------------------------------------------------------------
\* blender-quick-convert.py

\* os.makedirs(d, exist_ok=True); d = '' raises FileNotFoundError
makedirs(c, d) ==
    IF d = <<>> THEN Raise(c, "FileNotFoundError")
    ELSE [c EXCEPT !.w.dirs = @ \cup Prefixes(d)]

\* convert_sprite_to_3d(sprite_path, output_path, depth, method)
convert_sprite_to_3d(w0, sprite_path, output_path, depth, method, host) ==
    LET w == ClearScene(w0)
        c == Frame(w)
    IN  IF ~os_path_exists(sprite_path) THEN Return(c, "False")
        ELSE IF ~images_load_ok(sprite_path) THEN Return(c, "False")
        ELSE IF img_size(sprite_path)[2] = 0 THEN Raise(c, "ZeroDivisionError")
        ELSE LET aspect == Aspect(img_size(sprite_path))
                 built ==
                    IF method = "extrude"
                    THEN ExtrudeBuild(w, sprite_path, aspect, depth, <<"Sprite3D">>)
                    ELSE IF method = "voxel"
                    THEN VoxelLayers(w, sprite_path, aspect, depth, FALSE, 0)
                    ELSE w
                 made == makedirs([c EXCEPT !.w = built], dirname(output_path))
                 done == IF made.result = "running"
                         THEN ExportGltf(made, output_path, host)
                         ELSE made
             IN  IF done.result = "running" THEN Return(done, "True") ELSE done

----------------------------------------------------------------------------
\* blender-addon-sprite-converter.py

\* A variant of the depth property without its limits
DepthPropertyUnchecked(value) == value

\* depth: FloatProperty(min=0.1, max=2.0): the host keeps the value in range
DepthProperty(value) ==
    IF value < DepthMin THEN DepthMin
    ELSE IF value > DepthMax THEN DepthMax
    ELSE value

\* ConvertSpriteTo3D.execute, with self.filepath, self.depth and self.method
execute(w, filepath, depth, method) ==
    LET c == Frame(w)
    IN  IF ~os_path_exists(filepath) THEN Return(c, "CANCELLED")
        ELSE IF ~images_load_ok(filepath) THEN Return(c, "CANCELLED")
        ELSE IF img_size(filepath)[2] = 0 THEN Raise(c, "ZeroDivisionError")
        ELSE LET aspect == Aspect(img_size(filepath))
                 built ==
                    IF method = "EXTRUDE"
                    THEN ExtrudeBuild(w, filepath, aspect, depth, <<"Cube">>)
                    ELSE IF method = "VOXEL"
                    THEN VoxelLayers(w, filepath, aspect, depth, FALSE, 0)
                    ELSE w
             IN  Return([c EXCEPT !.w = built], "FINISHED")

----------------------------------------------------------------------------
\* Command lines.  argv is what follows "--": the sprite path, the output
\* path (a sequence of components) and up to two more words.

FloatWords == {"0.4", "3.0"}

\* float(word), for the words that are numbers; the others raise ValueError
float(word) == IF word = "0.4" THEN 40 ELSE 300

\* depth = ... else 0.5   and   depth = ... else 0.1
SpriteDefaultDepth == 50
CharacterDefaultDepth == 10

\* What one run of a main() did: the conversion frame, whether the conversion
\* function was called and with what, and how main ended: "return" (it
\* returned), "exit0" or "exit1" (sys.exit), "raised" (an uncaught exception).
MainRun(c, called, image, out, depth, method, end) ==
    [c |-> c, called |-> called, image |-> image, out |-> out, depth |-> depth,
     method |-> method, end |-> end]

NotCalled(c, end) == MainRun(c, FALSE, "", <<>>, 0, "", end)

\* sys.exit(0 if success else 1), or the exception the function raised
ExitOn(c) ==
    IF c.result = "True" THEN "exit0"
    ELSE IF c.result = "False" THEN "exit1"
    ELSE "raised"

\* os.makedirs(os.path.dirname(output_path) if os.path.dirname(output_path)
\*             else '.', exist_ok=True)
MakeOutputDir(c, output_path) ==
    makedirs(c, IF dirname(output_path) # <<>> THEN dirname(output_path)
                ELSE <<".">>)

\* A variant of the sprite script's main that reads [method] [depth]
sprite_main_method_first(w, argv, host) ==
    IF Len(argv) < 2 THEN NotCalled(Frame(w), "return")
    ELSE IF Len(argv) > 3 /\ argv[4] \notin FloatWords
    THEN NotCalled(Raise(Frame(w), "ValueError"), "raised")
    ELSE LET method == IF Len(argv) > 2 THEN argv[3] ELSE "extrude"
             depth == IF Len(argv) > 3 THEN float(argv[4]) ELSE SpriteDefaultDepth
             made == MakeOutputDir(Frame(w), argv[2])
             c == create_3d_from_sprite(made.w, argv[1], argv[2], depth, method, host)
         IN  MainRun(c, TRUE, argv[1], argv[2], depth, method, ExitOn(c))

\* main() of blender-sprite-to-3d.py: <sprite_path> <output_path> [depth] [method]
sprite_main(w, argv, host) ==
    IF Len(argv) < 2 THEN NotCalled(Frame(w), "return")
    ELSE IF Len(argv) > 2 /\ argv[3] \notin FloatWords
    THEN NotCalled(Raise(Frame(w), "ValueError"), "raised")
    ELSE LET depth == IF Len(argv) > 2 THEN float(argv[3]) ELSE SpriteDefaultDepth
             method == IF Len(argv) > 3 THEN argv[4] ELSE "extrude"
             made == MakeOutputDir(Frame(w), argv[2])
             c == create_3d_from_sprite(made.w, argv[1], argv[2], depth, method, host)
         IN  MainRun(c, TRUE, argv[1], argv[2], depth, method, ExitOn(c))

\* main() of blender-character-to-3d.py: <sprite_path> <output_path> [method] [depth]
character_main(w, argv, host) ==
    IF Len(argv) < 2 THEN NotCalled(Frame(w), "return")
    ELSE IF Len(argv) > 3 /\ argv[4] \notin FloatWords
    THEN NotCalled(Raise(Frame(w), "ValueError"), "raised")
    ELSE LET method == IF Len(argv) > 2 THEN argv[3] ELSE "billboard-depth"
             depth == IF Len(argv) > 3 THEN float(argv[4]) ELSE CharacterDefaultDepth
             made == MakeOutputDir(Frame(w), argv[2])
             c == create_billboard_character(made.w, argv[1], argv[2], method, depth, host)
         IN  MainRun(c, TRUE, argv[1], argv[2], depth, method, ExitOn(c))

----------------------------------------------------------------------------
\* Inputs explored

Depths == {40, 300}
SpriteMethods == {"extrude", "voxel", "billboard"}
CharacterMethods == {"billboard", "billboard-depth", "capsule", "extrude"}
AddonMethods == {"EXTRUDE", "VOXEL"}

\* argv of the sprite and character scripts: zero to four words
ExtraWords == FloatWords \cup {"extrude", "voxel", "billboard-depth"}
Argvs ==
    {<<>>} \cup { <<i>> : i \in SpritePaths }
    \cup { <<i, o>> : i \in {"missing.png", "sprite.png", "empty.png"}, o \in OutputPaths }
    \cup { <<"sprite.png", o, a>> : o \in OutputPaths, a \in ExtraWords }
    \cup { <<"sprite.png", <<"out.glb">>, a, b>> : a \in ExtraWords, b \in ExtraWords }

\* Exit status of a background host whose script ended with an uncaught
\* exception: 0 unless the host was started with --python-exit-code
UncaughtExitCodes == {0, 1}

Modules == {"sprite", "character", "quick", "addon"}

----------------------------------------------------------------------------
\* The state machine

NoCall ==
    [op |-> "none", argv |-> <<>>, called |-> FALSE, image |-> "", out |-> <<>>,
     depth |-> 0, method |-> "", result |-> "", created |-> <<>>, newMats |-> <<>>,
     exports |-> <<>>, written |-> {}, end |-> ""]

\* The record of one call or run r that began in world w0: what was passed,
\* the result, the objects and materials it created, its exporter calls and
\* the files it wrote
CallRecord(op, w0, r) ==
    [op |-> op, argv |-> <<>>, called |-> r.called, image |-> r.image, out |-> r.out,
     depth |-> r.depth, method |-> r.method, result |-> r.c.result,
     created |-> SubSeq(r.c.w.objects, r.c.base + 1, Len(r.c.w.objects)),
     newMats |-> SubSeq(r.c.w.materials, Len(w0.materials) + 1, Len(r.c.w.materials)),
     exports |-> r.c.exports, written |-> r.c.w.files \ w0.files, end |-> r.end]

Here == World(objects, materials, dirs, files)

Init ==
    /\ proc = "running"
    /\ exitCode = -1
    /\ loaded = {}
    /\ objects = StartupObjects
    /\ materials = StartupMaterials
    /\ dirs = { <<".">> }
    /\ files = {}
    /\ last = NoCall
    /\ ncalls = 0

\* The statements a script runs when it is loaded: the sprite and character
\* scripts clear the scene, the other two only define things.
ModuleLevel(m, w) == IF m \in {"sprite", "character"} THEN ClearScene(w) ELSE w

\* A script is loaded into the running host (imported, or registered as an
\* add-on); a session works with one script.
LoadModule(m) ==
    /\ proc = "running"
    /\ loaded = {}
    /\ loaded' = {m}
    /\ objects' = ModuleLevel(m, Here).objects
    /\ UNCHANGED <<proc, exitCode, materials, dirs, files, last, ncalls>>

\* The host after a function called in it has returned or raised
AfterCall(op, r) ==
    /\ objects' = r.c.w.objects
    /\ materials' = r.c.w.materials
    /\ dirs' = r.c.w.dirs
    /\ files' = r.c.w.files
    /\ last' = CallRecord(op, Here, r)
    /\ ncalls' = ncalls + 1
    /\ UNCHANGED <<proc, exitCode, loaded>>

CanCall(m) == proc = "running" /\ m \in loaded /\ ncalls < MaxCalls

Call_create_3d_from_sprite ==
    /\ CanCall("sprite")
    /\ \E image \in SpritePaths, out \in OutputPaths, depth \in Depths,
          method \in SpriteMethods, host \in HostExport :
          AfterCall("create_3d_from_sprite",
                    MainRun(create_3d_from_sprite(Here, image, out, depth, method, host),
                            TRUE, image, out, depth, method, ""))

Call_create_billboard_character ==
    /\ CanCall("character")
    /\ \E image \in SpritePaths, out \in OutputPaths, depth \in Depths,
          method \in CharacterMethods, host \in HostExport :
          AfterCall("create_billboard_character",
                    MainRun(create_billboard_character(Here, image, out, method, depth, host),
                            TRUE, image, out, depth, method, ""))

Call_convert_sprite_to_3d ==
    /\ CanCall("quick")
    /\ \E image \in SpritePaths, out \in OutputPaths, depth \in Depths,
          method \in SpriteMethods, host \in HostExport :
          AfterCall("convert_sprite_to_3d",
                    MainRun(convert_sprite_to_3d(Here, image, out, depth, method, host),
                            TRUE, image, out, depth, method, ""))

\* The operator is run with a file path, a requested depth and a method
Call_execute ==
    /\ CanCall("addon")
    /\ \E image \in SpritePaths, depth \in Depths, method \in AddonMethods :
          AfterCall("execute",
                    MainRun(execute(Here, image, DepthProperty(depth), method),
                            TRUE, image, <<>>, DepthProperty(depth), method, ""))

\* Exit status of the host process after a script run from the command line
ExitCodes(end) ==
    IF end = "exit1" THEN {1}
    ELSE IF end = "raised" THEN UncaughtExitCodes
    ELSE {0}

\* blender --background --python <script> -- argv: a new host process runs the
\* script's module-level statements and its main(), then ends.
AfterRun(op, argv, w0, r) ==
    /\ proc' = "exited"
    /\ exitCode' \in ExitCodes(r.end)
    /\ loaded' = {}
    /\ objects' = <<>>
    /\ materials' = <<>>
    /\ dirs' = r.c.w.dirs
    /\ files' = r.c.w.files
    /\ last' = [CallRecord(op, w0, r) EXCEPT !.argv = argv]
    /\ ncalls' = ncalls + 1

FreshHost == World(StartupObjects, StartupMaterials, dirs, files)

Run_sprite_to_3d ==
    /\ ncalls < MaxCalls
    /\ \E argv \in Argvs, host \in HostExport :
          AfterRun("sprite_main", argv, FreshHost,
                   sprite_main(ModuleLevel("sprite", FreshHost), argv, host))

Run_character_to_3d ==
    /\ ncalls < MaxCalls
    /\ \E argv \in Argvs, host \in HostExport :
          AfterRun("character_main", argv, FreshHost,
                   character_main(ModuleLevel("character", FreshHost), argv, host))

\* No host process yet
InitCli ==
    /\ proc = "exited"
    /\ exitCode = -1
    /\ loaded = {}
    /\ objects = <<>>
    /\ materials = <<>>
    /\ dirs = { <<".">> }
    /\ files = {}
    /\ last = NoCall
    /\ ncalls = 0

\* A session of the interactive host: one script is loaded, then its
\* conversion function is called any number of times.
Next ==
    \/ \E m \in Modules : LoadModule(m)
    \/ Call_create_3d_from_sprite
    \/ Call_create_billboard_character
    \/ Call_convert_sprite_to_3d
    \/ Call_execute

Spec == Init /\ [][Next]_vars

\* The standalone scripts run from the command line, one process per run
NextCli ==
    \/ Run_sprite_to_3d
    \/ Run_character_to_3d

SpecCli == InitCli /\ [][NextCli]_vars

----------------------------------------------------------------------------
\* blender-fbx-to-glb.py: a script of top-level statements, run as
\*   blender --background --python blender-fbx-to-glb.py -- input.fbx output.glb
\* One action per block of the script; proc is the block about to run and
\* last.steps the blocks that have run.

\* FBX files: what os.path.exists and bpy.ops.import_scene.fbx give.
FbxPaths == {"missing.fbx", "model.fbx", "broken.fbx"}

fbx_path_exists(path) == path \in {"model.fbx", "broken.fbx"}

\* bpy.ops.import_scene.fbx raises on a file it cannot read
import_fbx_ok(path) == path = "model.fbx"

\* The words after "--"
FbxArgvs ==
    { <<>> } \cup { <<i>> : i \in FbxPaths }
        \cup { <<i, o>> : i \in FbxPaths, o \in OutputPaths }

\* What the import puts into the scene: one mesh object with its material
FbxObjects(path) ==
    << Obj("mesh", <<path>>, Vec(0, 0, 0), Vec(ScaleOne, ScaleOne, ScaleOne), <<1>>) >>

FbxMaterials(path) == << NewMaterial(<<path>>) >>

FbxRun(argv) ==
    [op |-> "fbx_to_glb", argv |-> argv, input |-> "", out |-> <<>>,
     steps |-> <<>>, imported |-> "", exported |-> "", madeDir |-> FALSE]

Step(name) == [last EXCEPT !.steps = Append(@, name)]

\* sys.exit(code), or the end of the script: the process is gone, the file
\* system stays.
FbxExit(code, record) ==
    /\ proc' = "exited"
    /\ exitCode' = code
    /\ objects' = <<>>
    /\ materials' = <<>>
    /\ last' = record
    /\ UNCHANGED <<loaded, ncalls>>

FbxGoto(block, record) ==
    /\ proc' = block
    /\ last' = record
    /\ UNCHANGED <<exitCode, loaded, ncalls>>

\* The block that follows the import: a failed import lets the rest run
FbxAfterImportIgnoring(ok) == "fbx_output_dir"

\* try: import_scene.fbx(...)  except Exception: sys.exit(1)
FbxAfterImport(ok) == IF ok THEN "fbx_output_dir" ELSE "exit1"

\* A Blender process starts with the startup scene and splits sys.argv at "--"
Fbx_Start ==
    /\ proc = "exited"
    /\ ncalls < MaxCalls
    /\ \E argv \in FbxArgvs :
          /\ proc' = "fbx_args"
          /\ last' = FbxRun(argv)
    /\ exitCode' = -1
    /\ objects' = StartupObjects
    /\ materials' = StartupMaterials
    /\ ncalls' = ncalls + 1
    /\ UNCHANGED <<loaded, dirs, files>>

\* if len(argv) < 2: print usage; sys.exit(1)
Fbx_CheckArgs ==
    /\ proc = "fbx_args"
    /\ IF Len(last.argv) < 2
       THEN FbxExit(1, Step("usage"))
       ELSE FbxGoto("fbx_check_input",
                    [last EXCEPT !.input = last.argv[1], !.out = last.argv[2]])
    /\ IF Len(last.argv) < 2
       THEN UNCHANGED <<dirs, files>>
       ELSE UNCHANGED <<objects, materials, dirs, files>>

\* if not os.path.exists(input_path): sys.exit(1)
Fbx_CheckInput ==
    /\ proc = "fbx_check_input"
    /\ IF ~fbx_path_exists(last.input)
       THEN FbxExit(1, Step("not_found")) /\ UNCHANGED <<dirs, files>>
       ELSE FbxGoto("fbx_clear", last)
                /\ UNCHANGED <<objects, materials, dirs, files>>

\* select_all + delete, then every material and mesh is removed
Fbx_ClearScene ==
    /\ proc = "fbx_clear"
    /\ objects' = <<>>
    /\ materials' = <<>>
    /\ FbxGoto("fbx_import", Step("clear"))
    /\ UNCHANGED <<dirs, files>>

Fbx_Import ==
    /\ proc = "fbx_import"
    /\ LET ok == import_fbx_ok(last.input)
           record == [Step("import") EXCEPT
                          !.imported = IF ok THEN "ok" ELSE "RuntimeError"]
       IN  IF FbxAfterImport(ok) = "exit1"
           THEN FbxExit(1, record) /\ UNCHANGED <<dirs, files>>
           ELSE /\ FbxGoto(FbxAfterImport(ok), record)
                /\ objects' = IF ok THEN FbxObjects(last.input) ELSE objects
                /\ materials' = IF ok THEN FbxMaterials(last.input) ELSE materials
                /\ UNCHANGED <<dirs, files>>

\* output_dir = os.path.dirname(output_path)
\* if output_dir and not os.path.exists(output_dir): os.makedirs(output_dir, ...)
Fbx_OutputDir ==
    /\ proc = "fbx_output_dir"
    /\ LET output_dir == dirname(last.out)
       IN  IF output_dir # <<>> /\ output_dir \notin dirs \cup files
           THEN /\ dirs' = dirs \cup Prefixes(output_dir)
                /\ FbxGoto("fbx_export", [Step("makedirs") EXCEPT !.madeDir = TRUE])
           ELSE /\ dirs' = dirs
                /\ FbxGoto("fbx_export", last)
    /\ UNCHANGED <<objects, materials, files>>

\* try: export_scene.gltf(**export_params)  except Exception: sys.exit(1)
Fbx_Export ==
    /\ proc = "fbx_export"
    /\ \E outcome \in ExportOutcomes :
          LET record == [Step("export") EXCEPT !.exported = outcome]
          IN  IF outcome = "ok"
              THEN /\ files' = files \cup {last.out}
                   /\ FbxGoto("fbx_complete", record)
                   /\ UNCHANGED <<objects, materials, dirs>>
              ELSE FbxExit(1, record) /\ UNCHANGED <<dirs, files>>

\* stderr is restored, "Conversion complete!" is printed and the script ends
Fbx_Complete ==
    /\ proc = "fbx_complete"
    /\ FbxExit(0, Step("complete"))
    /\ UNCHANGED <<dirs, files>>

InitFbx ==
    /\ proc = "exited"
    /\ exitCode = -1
    /\ loaded = {}
    /\ objects = <<>>
    /\ materials = <<>>
    /\ dirs = { <<".">> }
    /\ files = {}
    /\ last = FbxRun(<<>>)
    /\ ncalls = 0

NextFbx ==
    \/ Fbx_Start
    \/ Fbx_CheckArgs
    \/ Fbx_CheckInput
    \/ Fbx_ClearScene
    \/ Fbx_Import
    \/ Fbx_OutputDir
    \/ Fbx_Export
    \/ Fbx_Complete

SpecFbx == InitFbx /\ [][NextFbx]_vars

----------------------------------------------------------------------------
\* Properties

ConversionFunctions ==
    {"create_3d_from_sprite", "create_billboard_character", "convert_sprite_to_3d"}

Mains == {"sprite_main", "character_main"}

\* The method names each conversion function recognises
Recognised(op) ==
    IF op = "create_billboard_character"
    THEN {"billboard", "billboard-depth", "capsule"}
    ELSE {"extrude", "voxel"}

\* The sprites of the file system that load with a positive height
GoodSprites == {"sprite.png", "tall.png"}

Range(seq) == { seq[k] : k \in 1..Len(seq) }

\* C1: a method name that is not recognised makes the conversion fail: the
\* function does not return success and the exporter is not invoked.
C1_UnknownMethodFails ==
    (last.op \in ConversionFunctions /\ last.method \notin Recognised(last.op))
        => (last.result # "True" /\ last.exports = <<>>)

\* The materials of the host that the object carries
MatsOf(o) == { materials[o.mats[k]] : k \in 1..Len(o.mats) }

\* The last call built voxel layers
VoxelBuilt ==
    /\ last.op \in {"create_3d_from_sprite", "convert_sprite_to_3d", "execute"}
    /\ last.method \in {"voxel", "VOXEL"}
    /\ last.image \in GoodSprites

\* Eight planes, each with one material of its own bound to the sprite
EightTexturedPlanes ==
    /\ Len(last.created) = Layers
    /\ \A k \in 1..Len(last.created) :
          /\ last.created[k].kind = "plane"
          /\ Len(last.created[k].mats) = 1
          /\ \A m \in MatsOf(last.created[k]) : m.tex = last.image
    /\ \A j, k \in 1..Len(last.created) :
          j # k => last.created[j].mats # last.created[k].mats

\* C2 as claimed: the voxel method creates 8 planes evenly spaced over the
\* whole of [-d/2, d/2], the first at -d/2 and the last at d/2, each with its
\* own material bound to the sprite.
C2_VoxelSpansWholeRange ==
    VoxelBuilt =>
        /\ EightTexturedPlanes
        /\ \A k \in 1..Len(last.created) :
              last.created[k].loc[2] * 2 * (Layers - 1) =
                  (2 * (k - 1) - (Layers - 1)) * DepthAsLoc(last.depth)

\* C2 amended: the voxel method creates 8 planes spaced d/8 apart from -d/2
\* up (the k-th at -d/2 + (k-1)*d/8, so the last at 3d/8), each with its own
\* material bound to the sprite.
C2_VoxelLayersSpacedByEighth ==
    VoxelBuilt =>
        /\ EightTexturedPlanes
        /\ \A k \in 1..Len(last.created) :
              /\ last.created[k].loc[1] = 0
              /\ last.created[k].loc[3] = 0
              /\ last.created[k].loc[2] * 2 * Layers =
                    (2 * (k - 1) - Layers) * DepthAsLoc(last.depth)

C2_Witness ==
    /\ VoxelBuilt
    /\ last.op = "convert_sprite_to_3d"
    /\ last.result = "True"
    /\ last.depth = 40
    /\ last.created[Layers].loc[2] = 3 * (DepthAsLoc(40) \div 8)

\* C3: the scene handed to the exporter by a call holds only the primitives
\* that call created.
C3_ExportsOnlyOwnPrimitives ==
    last.op \in ConversionFunctions =>
        \A e \in Range(last.exports) : e.scene = last.created

\* C4: a script run from the command line ends with exit code 0 exactly when
\* the conversion succeeded.
C4_ExitZeroOnlyOnSuccess ==
    last.op \in Mains =>
        (exitCode = 0 <=> (last.called /\ last.result = "True"))

\* C5 as claimed: in each script the third word is the method and the fourth
\* the depth, and both reach the conversion function.
C5_MethodThenDepth ==
    (last.op \in Mains /\ Len(last.argv) = 4 /\ last.argv[4] \in FloatWords) =>
        /\ last.called
        /\ last.method = last.argv[3]
        /\ last.depth = float(last.argv[4])

\* C5 amended: the character script takes [method] [depth], the sprite script
\* takes [depth] [method]; given in that order they reach the conversion
\* function.
C5_ArgumentOrderPerScript ==
    /\ (last.op = "character_main" /\ Len(last.argv) = 4
            /\ last.argv[4] \in FloatWords) =>
          /\ last.called
          /\ last.method = last.argv[3]
          /\ last.depth = float(last.argv[4])
    /\ (last.op = "sprite_main" /\ Len(last.argv) = 4
            /\ last.argv[3] \in FloatWords) =>
          /\ last.called
          /\ last.depth = float(last.argv[3])
          /\ last.method = last.argv[4]

C5_Witness ==
    /\ last.op = "sprite_main"
    /\ last.argv = <<"sprite.png", <<"out.glb">>, "0.4", "voxel">>
    /\ last.called
    /\ last.depth = 40
    /\ last.method = "voxel"
    /\ Len(last.created) = Layers

\* C6: the parent directory of the output path exists whenever the exporter
\* is invoked, and creating it never makes the conversion fail.
C6_ParentDirectoryReady ==
    last.op \in ConversionFunctions \cup Mains =>
        /\ \A e \in Range(last.exports) : e.parent
        /\ last.result # "FileNotFoundError"

\* C7 as claimed: the exporter is invoked at most once in a call.
C7_ExportAtMostOnce == Len(last.exports) <= 1

\* C7 amended: the exporter is invoked at most twice in a call; a second
\* invocation happens only after a first that raised TypeError, and the
\* error of the last invocation, if any, is what the call raises.
C7_OneRetryOnTypeErrorOnly ==
    /\ Len(last.exports) <= 2
    /\ Len(last.exports) = 2 => last.exports[1].outcome = "TypeError"
    /\ \A k \in 1..Len(last.exports) :
          /\ (k < Len(last.exports)) => last.exports[k].outcome # "ok"
          /\ (k = Len(last.exports) /\ last.exports[k].outcome # "ok")
                => last.result = last.exports[k].outcome
          /\ (k = Len(last.exports) /\ last.exports[k].outcome = "ok")
                => last.result = "True"

C7_Witness ==
    /\ last.op = "create_billboard_character"
    /\ Len(last.exports) = 2
    /\ last.exports[2].outcome = "RuntimeError"
    /\ last.result = "RuntimeError"

\* The methods whose geometry depends on the depth
DepthMethods == {"extrude", "voxel", "billboard-depth", "EXTRUDE", "VOXEL"}

\* C8: no primitive is created, scaled or positioned with a depth outside
\* [0.1, 2.0].
C8_DepthInRange ==
    (last.created # <<>> /\ last.method \in DepthMethods) =>
        (DepthMin <= last.depth /\ last.depth <= DepthMax)

\* C9: with a sprite path that does not exist, every conversion function
\* reports failure, creates no primitive and no material, does not invoke the
\* exporter and writes no file.
C9_MissingSpriteFails ==
    (last.op \in ConversionFunctions \cup {"execute"} /\ last.image = "missing.png") =>
        /\ last.result = IF last.op = "execute" THEN "CANCELLED" ELSE "False"
        /\ last.created = <<>>
        /\ last.newMats = <<>>
        /\ last.exports = <<>>
        /\ last.written = {}

C9_Witness ==
    /\ last.op = "create_billboard_character"
    /\ last.image = "missing.png"
    /\ last.result = "False"
    /\ objects # <<>>
    /\ ncalls = 2

\* The scene is the two planes of the billboard-depth method for the sprite
\* and depth of the last call
IsBillboardDepthScene(scene) ==
    /\ Len(scene) = 2
    /\ scene[1].kind = "plane"
    /\ scene[1].loc = Vec(0, 0, 0)
    /\ scene[1].scale = Vec(Aspect(img_size(last.image)), ScaleOne, ScaleOne)
    /\ \A m \in MatsOf(scene[1]) :
          m.blend = "BLEND" /\ m.tex = last.image /\ m.colorLinked /\ m.alphaLinked
    /\ Len(scene[1].mats) = 1
    /\ scene[2].kind = "plane"
    /\ scene[2].loc = Vec(0, 0 - DepthAsLoc(last.depth), 0)
    /\ scene[2].scale[1] * 100 = scene[1].scale[1] * 105
    /\ scene[2].scale[2] * 100 = scene[1].scale[2] * 105
    /\ Len(scene[2].mats) = 1
    /\ \A m \in MatsOf(scene[2]) :
          m.color = "black" /\ m.alpha = 3 /\ m.tex = "none" /\ ~m.colorLinked

\* C10: for the billboard-depth method the exported scene is exactly the
\* front plane and the shadow plane.
C10_BillboardDepthScene ==
    (last.op = "create_billboard_character" /\ last.method = "billboard-depth") =>
        \A e \in Range(last.exports) : IsBillboardDepthScene(e.scene)

\* The mesh primitives among the objects of a scene
MeshKinds == {"cube", "plane", "sphere"}

Meshes(scene) == SelectSeq(scene, LAMBDA o : o.kind \in MeshKinds)

\* The scene is one cuboid at the origin scaled (w/h, 1, d) for the sprite and
\* depth of the last call, with one alpha-blended material taking base colour
\* and alpha from the sprite
IsExtrudeScene(scene) ==
    /\ Len(Meshes(scene)) = 1
    /\ Meshes(scene)[1].kind = "cube"
    /\ Meshes(scene)[1].loc = Vec(0, 0, 0)
    /\ Meshes(scene)[1].scale[1] * img_size(last.image)[2] =
            ScaleOne * img_size(last.image)[1]
    /\ Meshes(scene)[1].scale[2] = ScaleOne
    /\ Meshes(scene)[1].scale[3] * 100 = last.depth * ScaleOne
    /\ Len(Meshes(scene)[1].mats) = 1
    /\ \A m \in MatsOf(Meshes(scene)[1]) :
          m.blend = "BLEND" /\ m.tex = last.image /\ m.colorLinked /\ m.alphaLinked

\* C11: for the extrude method the exported scene holds exactly one mesh
\* primitive, the cuboid scaled (w/h, 1, d) with its one textured,
\* alpha-blended material.
C11_ExtrudeScene ==
    (last.op \in {"create_3d_from_sprite", "convert_sprite_to_3d", "execute"}
        /\ last.method \in {"extrude", "EXTRUDE"}) =>
        \A e \in Range(last.exports) : IsExtrudeScene(e.scene)

\* What the exporter is given of one object: its kind, placement and the
\* materials bound to it (names and data-block numbers left out)
ObjectDesc(o, ms) ==
    [kind |-> o.kind, loc |-> o.loc, scale |-> o.scale,
     mats |-> [k \in 1..Len(o.mats) |-> [ms[o.mats[k]] EXCEPT !.name = <<>>]]]

SceneDesc(scene, ms) == [k \in 1..Len(scene) |-> ObjectDesc(scene[k], ms)]

\* The next call repeats the last one with another output path, and both
\* reached the exporter
RepeatedToOtherPath ==
    /\ last.op \in ConversionFunctions
    /\ last'.op = last.op
    /\ last'.image = last.image
    /\ last'.depth = last.depth
    /\ last'.method = last.method
    /\ last'.out # last.out
    /\ last.exports # <<>>
    /\ last'.exports # <<>>

\* C12: a conversion repeated with the same sprite, method and depth to
\* another output path hands the exporter the same scene description.
C12_RepeatGivesSameScene ==
    [][RepeatedToOtherPath =>
          SceneDesc(last'.exports[1].scene, materials') =
              SceneDesc(last.exports[1].scene, materials)]_vars

\* The mesh primitives of the scene that carry material number i
BoundTo(i) ==
    { k \in 1..Len(objects) :
        objects[k].kind \in MeshKinds /\ i \in Range(objects[k].mats) }

\* C13: after a conversion call every material of bpy.data.materials is bound
\* to exactly one mesh primitive of the scene, and every mesh primitive has
\* exactly one material.
C13_MaterialsBoundOneToOne ==
    last.op \in ConversionFunctions \cup {"execute"} =>
        /\ \A i \in 1..Len(materials) : Cardinality(BoundTo(i)) = 1
        /\ \A k \in 1..Len(objects) :
              objects[k].kind \in MeshKinds => Len(objects[k].mats) = 1

\* The blocks of blender-fbx-to-glb.py in the order of the script
FbxOrder == <<"clear", "import", "makedirs", "export", "complete">>

Rank(name) == CHOOSE k \in 1..Len(FbxOrder) : FbxOrder[k] = name

\* The steps of the run so far are blocks of the script, each at most once
\* and in the script's order
InScriptOrder(steps) ==
    /\ \A k \in 1..Len(steps) : steps[k] \in Range(FbxOrder)
    /\ \A j, k \in 1..Len(steps) : j < k => Rank(steps[j]) < Rank(steps[k])

\* The run stopped before it touched the scene
StoppedEarly == last.steps \in { <<"usage">>, <<"not_found">> }

====
